---- MODULE Spec2Model ----
(***************************************************************************)
(* Model of net.py: the R(2+1)D symbol definition.  The state is the graph *)
(* of symbols an invocation has created so far, the ModelBuilder's         *)
(* counters, the locals of create_r3d / add_r3d_block, and the framework's *)
(* process-wide counter that names the symbols created without a name.     *)
(* A process either calls create_r3d (possibly several times), or builds a *)
(* ModelBuilder itself and calls its two methods.                          *)
(***************************************************************************)
EXTENDS Integers, Sequences, FiniteSets, TLC

VARIABLES pc, ret, args, counts, stage, i, builder, frame, graph, body,
          nameCounter, prev, calls, blockLog, convLog

vars == <<pc, ret, args, counts, stage, i, builder, frame, graph, body,
          nameCounter, prev, calls, blockLog, convLog>>

(* ------------------------------ bounds -------------------------------- *)
\* create_r3d invocations in one process
MaxCalls == 2
\* add_r3d_block calls a client makes on a ModelBuilder of its own
MaxBlocks == 2
\* small channel counts tried besides the network's own 64..512
MaxCh == 3

(* --------------------------- program data ----------------------------- *)
BLOCK_CONFIG ==
    (10 :> <<1, 1, 1, 1>>) @@ (16 :> <<2, 2, 2, 1>>) @@ (18 :> <<2, 2, 2, 2>>)
    @@ (26 :> <<2, 3, 4, 3>>) @@ (34 :> <<3, 4, 6, 3>>)

\* model_depth values tried: the five keys and one that is no key
Depths == {10, 16, 18, 20, 26, 34}

\* (num_class, no_bias, bn_mom) combinations tried; bn_mom in tenths.  The
\* first is create_r3d's defaults.
ArgConfigs ==
    { [num_class |-> 101, no_bias |-> 0, bn_mom |-> 9],
      [num_class |-> 400, no_bias |-> 1, bn_mom |-> 5] }

final_spatial_kernel == 7
final_temporal_kernel == 1

\* output channels of conv_2x .. conv_5x, and of the stem feeding conv_2x
StageFilters == <<64, 128, 256, 512>>

\* channel pairs and strides the client tries on its own builder
BlockChannels == {<<64, 64>>, <<64, 128>>}
ConvChannels == (1..MaxCh) \cup {64, 128, 256, 512}
Strides == {<<1, 1, 1>>, <<1, 2, 2>>, <<2, 2, 2>>}

NoBuilder == [comp_count |-> -1, comp_idx |-> -1, bn_mom |-> -1, no_bias |-> -1]
NoFrame == [data |-> 0, input_filters |-> 0, num_filters |-> 0,
            down_sampling |-> FALSE, only_spatial_downsampling |-> FALSE,
            shortcut |-> 0, use_striding |-> <<>>, body |-> 0]
NoArgs == [model_depth |-> 0, num_class |-> 0, no_bias |-> 0, bn_mom |-> 0]
NoResult == [args |-> NoArgs, graph |-> <<>>]

(* ------------------------- symbol constructors ------------------------ *)
\* The framework's NameManager: a symbol created without a name is named
\* hint + the process-wide count of such symbols so far.
AutoName(nc, hint) == hint \o ToString(nc[hint])

Bump(nc, hint) == [nc EXCEPT ![hint] = @ + 1]

Var(name) ==
    [op |-> "var", name |-> name, inputs |-> <<>>, num_filter |-> 0,
     kernel |-> <<>>, stride |-> <<>>, no_bias |-> 0, momentum |-> {}]

Convolution(data, num_filter, kernel, stride, no_bias, name) ==
    [op |-> "Convolution", name |-> name, inputs |-> <<data>>,
     num_filter |-> num_filter, kernel |-> kernel, stride |-> stride,
     no_bias |-> no_bias, momentum |-> {}]

\* momentum is the set of values passed for it: empty when the argument is
\* left out and the framework's default applies
BatchNorm(data, momentum, name) ==
    [op |-> "BatchNorm", name |-> name, inputs |-> <<data>>, num_filter |-> 0,
     kernel |-> <<>>, stride |-> <<>>, no_bias |-> 0, momentum |-> momentum]

Activation(data, nc) ==
    [op |-> "Activation", name |-> AutoName(nc, "activation"),
     inputs |-> <<data>>, num_filter |-> 0, kernel |-> <<>>, stride |-> <<>>,
     no_bias |-> 0, momentum |-> {}]

Plus(lhs, rhs, nc) ==
    [op |-> "_Plus", name |-> AutoName(nc, "_plus"), inputs |-> <<lhs, rhs>>,
     num_filter |-> 0, kernel |-> <<>>, stride |-> <<>>, no_bias |-> 0,
     momentum |-> {}]

Pooling(data, kernel, stride, name) ==
    [op |-> "Pooling", name |-> name, inputs |-> <<data>>, num_filter |-> 0,
     kernel |-> kernel, stride |-> stride, no_bias |-> 0, momentum |-> {}]

FullyConnected(data, num_hidden, name) ==
    [op |-> "FullyConnected", name |-> name, inputs |-> <<data>>,
     num_filter |-> num_hidden, kernel |-> <<>>, stride |-> <<>>,
     no_bias |-> 0, momentum |-> {}]

SoftmaxOutput(data, label, name) ==
    [op |-> "SoftmaxOutput", name |-> name, inputs |-> <<data, label>>,
     num_filter |-> 0, kernel |-> <<>>, stride |-> <<>>, no_bias |-> 0,
     momentum |-> {}]

(* ------------------------------ names --------------------------------- *)
ConvMiddleName_NoIdx(comp_count, comp_idx) ==
    "comp_" \o ToString(comp_count) \o "_conv_middle"

ConvMiddleName(comp_count, comp_idx) ==
    "comp_" \o ToString(comp_count) \o "_conv_" \o ToString(comp_idx) \o "_middle"

BnMiddleName(comp_count, comp_idx) ==
    "comp_" \o ToString(comp_count) \o "_spatbn_" \o ToString(comp_idx) \o "_middle"

ConvName(comp_count, comp_idx) ==
    "comp_" \o ToString(comp_count) \o "_conv_" \o ToString(comp_idx)

BnName(comp_count, comp_idx) ==
    "comp_" \o ToString(comp_count) \o "_spatbn_" \o ToString(comp_idx)

ShortcutName(comp_count) == "shortcut_projection_" \o ToString(comp_count)

ShortcutBnName(comp_count) ==
    "shortcut_projection_" \o ToString(comp_count) \o "_spatbn"

(* --------------------------- ModelBuilder ----------------------------- *)
\* a builder that takes over the block counter of the builder before it
ModelBuilder_init_Stale(no_bias, bn_mom) ==
    [comp_count |-> IF builder.comp_count > 0 THEN builder.comp_count ELSE 0,
     comp_idx |-> 0, bn_mom |-> bn_mom,
     no_bias |-> IF no_bias # 0 THEN 1 ELSE 0]

ModelBuilder_init(no_bias, bn_mom) ==
    [comp_count |-> 0, comp_idx |-> 0, bn_mom |-> bn_mom,
     no_bias |-> IF no_bias # 0 THEN 1 ELSE 0]

\* truncates before the multiplication by the 3x3 kernel area
MiddleFilters_TruncEarly(in_filters, out_filters) ==
    ((3 * in_filters * out_filters)
        \div (in_filters * 3 * 3 + 3 * out_filters)) * 3 * 3

\* i = 3*in*out*3*3; i /= in*3*3 + 3*out; int(i): the quotient of two
\* positive integers, truncated once
MiddleFilters(in_filters, out_filters) ==
    (3 * in_filters * out_filters * 3 * 3)
        \div (in_filters * 3 * 3 + 3 * out_filters)

\* add_spatial_temporal_conv: the builder, graph and name counter after the
\* call, and the symbol it returns
add_spatial_temporal_conv(self, g, nc, data, in_filters, out_filters, stride) ==
    LET self1 == [self EXCEPT !.comp_idx = @ + 1]
        middle_filters == MiddleFilters(in_filters, out_filters)
        at == Len(g)
        conv_m == Convolution(data, middle_filters, <<1, 3, 3>>,
                              <<1, stride[2], stride[3]>>, self1.no_bias,
                              ConvMiddleName(self1.comp_count, self1.comp_idx))
        bn_m == BatchNorm(at + 1, {self1.bn_mom},
                          BnMiddleName(self1.comp_count, self1.comp_idx))
        relu == Activation(at + 2, nc)
        conv == Convolution(at + 3, out_filters, <<3, 1, 1>>,
                            <<stride[1], 1, 1>>, self1.no_bias,
                            ConvName(self1.comp_count, self1.comp_idx))
    IN  [self |-> self1, graph |-> g \o <<conv_m, bn_m, relu, conv>>,
         nc |-> Bump(nc, "activation"), body |-> at + 4]

UseStriding_Swapped(down_sampling, only_spatial_downsampling) ==
    IF down_sampling
    THEN IF only_spatial_downsampling THEN <<2, 2, 2>> ELSE <<1, 2, 2>>
    ELSE <<1, 1, 1>>

UseStriding(down_sampling, only_spatial_downsampling) ==
    IF down_sampling
    THEN IF only_spatial_downsampling THEN <<1, 2, 2>> ELSE <<2, 2, 2>>
    ELSE <<1, 1, 1>>

NeedsProjection_ChannelsOnly(input_filters, num_filters, down_sampling) ==
    num_filters # input_filters

NeedsProjection(input_filters, num_filters, down_sampling) ==
    (num_filters # input_filters) \/ down_sampling

\* a projection that never has a bias
ShortcutProjection_NoBias(self, shortcut, num_filters, use_striding, at) ==
    << Convolution(shortcut, num_filters, <<1, 1, 1>>, use_striding,
                   1, ShortcutName(self.comp_count)),
       BatchNorm(at + 1, {}, ShortcutBnName(self.comp_count)) >>

\* the two symbols of the shortcut projection, appended after `at` symbols
ShortcutProjection(self, shortcut, num_filters, use_striding, at) ==
    << Convolution(shortcut, num_filters, <<1, 1, 1>>, use_striding,
                   self.no_bias, ShortcutName(self.comp_count)),
       BatchNorm(at + 1, {}, ShortcutBnName(self.comp_count)) >>

CountBlock_Twice(self) == [self EXCEPT !.comp_count = @ + 2]

CountBlock(self) == [self EXCEPT !.comp_count = @ + 1]

(* ----------------------------- create_r3d ----------------------------- *)
\* a stem without its last activation
Stem_Short(a, nc) ==
    << Var("data"),
       Convolution(1, 45, <<1, 7, 7>>, <<1, 2, 2>>, a.no_bias, "conv1_middle"),
       BatchNorm(2, {a.bn_mom}, "conv1_middle_spatbn_relu"),
       Activation(3, nc),
       Convolution(4, 64, <<3, 1, 1>>, <<1, 1, 1>>, a.no_bias, "conv1"),
       BatchNorm(5, {a.bn_mom}, "conv1_spatbn_relu") >>

\* the seven symbols create_r3d makes before it looks the depth up
Stem(a, nc) ==
    << Var("data"),
       Convolution(1, 45, <<1, 7, 7>>, <<1, 2, 2>>, a.no_bias, "conv1_middle"),
       BatchNorm(2, {a.bn_mom}, "conv1_middle_spatbn_relu"),
       Activation(3, nc),
       Convolution(4, 64, <<3, 1, 1>>, <<1, 1, 1>>, a.no_bias, "conv1"),
       BatchNorm(5, {a.bn_mom}, "conv1_spatbn_relu"),
       Activation(6, Bump(nc, "activation")) >>

LoopCount_All(s, n) == n[s]

\* iterations of stage s's for loop: range(n1), then range(n - 1)
LoopCount(s, n) == IF s = 1 THEN n[1] ELSE n[s] - 1

FinalLayers(a, data, at) ==
    << Pooling(data, <<final_temporal_kernel, final_spatial_kernel,
                       final_spatial_kernel>>, <<1, 1, 1>>, "final_pool"),
       FullyConnected(at + 1, a.num_class, "final_fc"),
       Var("softmax_label"),
       SoftmaxOutput(at + 2, at + 3, "softmax") >>

(* ------------------------------- Init --------------------------------- *)
Init ==
    /\ pc = "idle"
    /\ ret = "none"
    /\ args = NoArgs
    /\ counts = <<0, 0, 0, 0>>
    /\ stage = 0
    /\ i = 0
    /\ builder = NoBuilder
    /\ frame = NoFrame
    /\ graph = <<>>
    /\ body = 0
    /\ nameCounter = ("activation" :> 0) @@ ("_plus" :> 0)
    /\ prev = NoResult
    /\ calls = 0
    /\ blockLog = <<>>
    /\ convLog = <<>>

(* ------------------------ calls and their logs ------------------------ *)
\* binds add_r3d_block's parameters and records the call
CallBlock(data, input_filters, num_filters, down_sampling, only_spatial, r) ==
    /\ frame' = [data |-> data, input_filters |-> input_filters,
                 num_filters |-> num_filters, down_sampling |-> down_sampling,
                 only_spatial_downsampling |-> only_spatial,
                 shortcut |-> 0, use_striding |-> <<>>, body |-> 0]
    /\ blockLog' = Append(blockLog,
                 [input_filters |-> input_filters, num_filters |-> num_filters,
                  down_sampling |-> down_sampling,
                  only_spatial_downsampling |-> only_spatial,
                  data |-> data, first |-> Len(graph) + 1, last |-> 0])
    /\ ret' = r
    /\ pc' = "r3d_enter"

ConvEntry(in_filters, out_filters, stride) ==
    [in_filters |-> in_filters, out_filters |-> out_filters, stride |-> stride,
     first |-> Len(graph) + 1, comp_count |-> builder.comp_count,
     comp_idx |-> builder.comp_idx]

(* ----------------------- actions of create_r3d ------------------------ *)
\* create_r3d(num_class, no_bias, model_depth, bn_mom) is called
Call(depth, cfg) ==
    /\ pc \in {"idle", "done", "failed"}
    /\ calls < MaxCalls
    /\ calls' = calls + 1
    /\ prev' = IF pc = "done" THEN [args |-> args, graph |-> graph] ELSE prev
    /\ args' = [model_depth |-> depth, num_class |-> cfg.num_class,
                no_bias |-> cfg.no_bias, bn_mom |-> cfg.bn_mom]
    /\ graph' = <<>>
    /\ body' = 0
    /\ blockLog' = <<>>
    /\ convLog' = <<>>
    /\ counts' = <<0, 0, 0, 0>>
    /\ stage' = 0
    /\ i' = 0
    /\ frame' = NoFrame
    /\ pc' = "stem"
    /\ UNCHANGED <<ret, builder, nameCounter>>

\* lines 121-131: the placeholder and the two stem convolutions
BeginLayers ==
    /\ pc = "stem"
    /\ graph' = Stem(args, nameCounter)
    /\ body' = Len(graph')
    /\ nameCounter' = Bump(Bump(nameCounter, "activation"), "activation")
    /\ pc' = "lookup"
    /\ UNCHANGED <<ret, args, counts, stage, i, builder, frame, prev, calls,
                   blockLog, convLog>>

\* lines 133-136: BLOCK_CONFIG[model_depth], then the builder
Lookup ==
    /\ pc = "lookup"
    /\ \/ /\ args.model_depth \in DOMAIN BLOCK_CONFIG
          /\ counts' = BLOCK_CONFIG[args.model_depth]
          /\ builder' = ModelBuilder_init(args.no_bias, args.bn_mom)
          /\ stage' = 1
          /\ i' = 0
          /\ pc' = "loop"
       \/ /\ args.model_depth \notin DOMAIN BLOCK_CONFIG
          /\ pc' = "failed"
          /\ UNCHANGED <<counts, builder, stage, i>>
    /\ UNCHANGED <<ret, args, frame, graph, body, nameCounter, prev, calls,
                   blockLog, convLog>>

\* one iteration of a stage's for loop (lines 139-140, 144-145, 149-150,
\* 154-155)
LoopCall ==
    /\ pc = "loop"
    /\ i < LoopCount(stage, counts)
    /\ i' = i + 1
    /\ CallBlock(body, StageFilters[stage], StageFilters[stage], FALSE, FALSE,
                 "loop")
    /\ UNCHANGED <<args, counts, stage, builder, graph, body, nameCounter,
                   prev, calls, convLog>>

\* the loop of a stage is over: the first block of the next stage (lines
\* 143, 148, 153)
NextStage ==
    /\ pc = "loop"
    /\ i >= LoopCount(stage, counts)
    /\ stage < 4
    /\ stage' = stage + 1
    /\ i' = 0
    /\ CallBlock(body, StageFilters[stage], StageFilters[stage + 1], TRUE,
                 FALSE, "loop")
    /\ UNCHANGED <<args, counts, builder, graph, body, nameCounter, prev,
                   calls, convLog>>

\* lines 158-164: pooling, fully connected layer, label and softmax
Final ==
    /\ pc = "loop"
    /\ i >= LoopCount(stage, counts)
    /\ stage = 4
    /\ graph' = graph \o FinalLayers(args, body, Len(graph))
    /\ body' = Len(graph')
    /\ pc' = "done"
    /\ UNCHANGED <<ret, args, counts, stage, i, builder, frame, nameCounter,
                   prev, calls, blockLog, convLog>>

(* ---------------------- actions of add_r3d_block ---------------------- *)
\* lines 63-69
BlockEnter ==
    /\ pc = "r3d_enter"
    /\ builder' = [builder EXCEPT !.comp_idx = 0]
    /\ frame' = [frame EXCEPT
                    !.shortcut = frame.data,
                    !.use_striding = UseStriding(frame.down_sampling,
                                        frame.only_spatial_downsampling)]
    /\ pc' = "r3d_conv1"
    /\ UNCHANGED <<ret, args, counts, stage, i, graph, body, nameCounter,
                   prev, calls, blockLog, convLog>>

\* lines 72-77
BlockConv1 ==
    /\ pc = "r3d_conv1"
    /\ LET r == add_spatial_temporal_conv(builder, graph, nameCounter,
                    frame.data, frame.input_filters, frame.num_filters,
                    frame.use_striding)
       IN  /\ builder' = r.self
           /\ graph' = r.graph
           /\ nameCounter' = r.nc
           /\ frame' = [frame EXCEPT !.body = r.body]
    /\ convLog' = Append(convLog, ConvEntry(frame.input_filters,
                                    frame.num_filters, frame.use_striding))
    /\ pc' = "r3d_bn1"
    /\ UNCHANGED <<ret, args, counts, stage, i, body, prev, calls, blockLog>>

\* lines 79-81
BlockBn1 ==
    /\ pc = "r3d_bn1"
    /\ graph' = graph \o
          << BatchNorm(frame.body, {builder.bn_mom},
                       BnName(builder.comp_count, builder.comp_idx)),
             Activation(Len(graph) + 1, nameCounter) >>
    /\ nameCounter' = Bump(nameCounter, "activation")
    /\ frame' = [frame EXCEPT !.body = Len(graph) + 2]
    /\ pc' = "r3d_conv2"
    /\ UNCHANGED <<ret, args, counts, stage, i, builder, body, prev, calls,
                   blockLog, convLog>>

\* lines 84-89
BlockConv2 ==
    /\ pc = "r3d_conv2"
    /\ LET r == add_spatial_temporal_conv(builder, graph, nameCounter,
                    frame.body, frame.num_filters, frame.num_filters,
                    <<1, 1, 1>>)
       IN  /\ builder' = r.self
           /\ graph' = r.graph
           /\ nameCounter' = r.nc
           /\ frame' = [frame EXCEPT !.body = r.body]
    /\ convLog' = Append(convLog, ConvEntry(frame.num_filters,
                                    frame.num_filters, <<1, 1, 1>>))
    /\ pc' = "r3d_bn2"
    /\ UNCHANGED <<ret, args, counts, stage, i, body, prev, calls, blockLog>>

\* lines 90-91
BlockBn2 ==
    /\ pc = "r3d_bn2"
    /\ graph' = Append(graph,
                   BatchNorm(frame.body, {builder.bn_mom},
                             BnName(builder.comp_count, builder.comp_idx)))
    /\ frame' = [frame EXCEPT !.body = Len(graph) + 1]
    /\ pc' = "r3d_shortcut"
    /\ UNCHANGED <<ret, args, counts, stage, i, builder, body, nameCounter,
                   prev, calls, blockLog, convLog>>

\* lines 93-98
BlockShortcut ==
    /\ pc = "r3d_shortcut"
    /\ \/ /\ NeedsProjection(frame.input_filters, frame.num_filters,
                             frame.down_sampling)
          /\ graph' = graph \o ShortcutProjection(builder, frame.shortcut,
                          frame.num_filters, frame.use_striding, Len(graph))
          /\ frame' = [frame EXCEPT !.shortcut = Len(graph) + 2]
       \/ /\ ~NeedsProjection(frame.input_filters, frame.num_filters,
                              frame.down_sampling)
          /\ UNCHANGED <<graph, frame>>
    /\ pc' = "r3d_add"
    /\ UNCHANGED <<ret, args, counts, stage, i, builder, body, nameCounter,
                   prev, calls, blockLog, convLog>>

\* lines 100-104: the residual add, its activation, the block counter, and
\* the return to the caller
BlockAdd ==
    /\ pc = "r3d_add"
    /\ graph' = graph \o
          << Plus(frame.shortcut, frame.body, nameCounter),
             Activation(Len(graph) + 1, nameCounter) >>
    /\ nameCounter' = Bump(Bump(nameCounter, "_plus"), "activation")
    /\ builder' = CountBlock(builder)
    /\ body' = Len(graph) + 2
    /\ blockLog' = [blockLog EXCEPT ![Len(blockLog)].last = Len(graph) + 2]
    /\ pc' = ret
    /\ UNCHANGED <<ret, args, counts, stage, i, frame, prev, calls, convLog>>

(* -------------- a client that drives a ModelBuilder itself ------------ *)
\* ModelBuilder(no_bias, bn_mom) on an input placeholder
NewBuilder(cfg) ==
    /\ pc = "idle"
    /\ calls = 0
    /\ builder' = ModelBuilder_init(cfg.no_bias, cfg.bn_mom)
    /\ args' = [model_depth |-> 0, num_class |-> cfg.num_class,
                no_bias |-> cfg.no_bias, bn_mom |-> cfg.bn_mom]
    /\ graph' = <<Var("data")>>
    /\ body' = 1
    /\ pc' = "client"
    /\ UNCHANGED <<ret, counts, stage, i, frame, nameCounter, prev, calls,
                   blockLog, convLog>>

\* builder.add_r3d_block(body, input_filters, num_filters, down_sampling,
\* only_spatial_downsampling)
DirectBlock(ch, down_sampling, only_spatial) ==
    /\ pc = "client"
    /\ Len(blockLog) < MaxBlocks
    /\ \A k \in 1..Len(convLog) :
          \E b \in 1..Len(blockLog) :
             convLog[k].first \in blockLog[b].first..blockLog[b].last
    /\ CallBlock(body, ch[1], ch[2], down_sampling, only_spatial, "client")
    /\ UNCHANGED <<args, counts, stage, i, builder, graph, body, nameCounter,
                   prev, calls, convLog>>

\* builder.add_spatial_temporal_conv(body, in_filters, out_filters, stride)
\* on a builder that has made nothing yet
DirectConv(in_filters, out_filters, stride) ==
    /\ pc = "client"
    /\ blockLog = <<>>
    /\ convLog = <<>>
    /\ LET r == add_spatial_temporal_conv(builder, graph, nameCounter,
                    body, in_filters, out_filters, stride)
       IN  /\ builder' = r.self
           /\ graph' = r.graph
           /\ nameCounter' = r.nc
           /\ body' = r.body
    /\ convLog' = Append(convLog, ConvEntry(in_filters, out_filters, stride))
    /\ UNCHANGED <<pc, ret, args, counts, stage, i, frame, prev, calls,
                   blockLog>>

Next ==
    \/ \E depth \in Depths, cfg \in ArgConfigs : Call(depth, cfg)
    \/ BeginLayers
    \/ Lookup
    \/ LoopCall
    \/ NextStage
    \/ Final
    \/ BlockEnter
    \/ BlockConv1
    \/ BlockBn1
    \/ BlockConv2
    \/ BlockBn2
    \/ BlockShortcut
    \/ BlockAdd
    \/ \E cfg \in ArgConfigs : NewBuilder(cfg)
    \/ \E ch \in BlockChannels, d \in BOOLEAN, o \in BOOLEAN :
          DirectBlock(ch, d, o)
    \/ \E a \in ConvChannels, b \in ConvChannels, s \in Strides :
          DirectConv(a, b, s)

Spec == Init /\ [][Next]_vars

(* ============================== claims ================================ *)
InCreate == calls > 0
HasBuilder == pc \in {"loop", "r3d_enter", "r3d_conv1", "r3d_bn1", "r3d_conv2",
                      "r3d_bn2", "r3d_shortcut", "r3d_add", "done", "client"}
Supported == args.model_depth \in DOMAIN BLOCK_CONFIG
Completed == {b \in 1..Len(blockLog) : blockLog[b].last # 0}
Rep(k, x) == [j \in 1..k |-> x]
IsPrefix(s, t) == Len(s) <= Len(t) /\ s = SubSeq(t, 1, Len(s))
IsProjection(n) == n.op = "Convolution" /\ n.kernel = <<1, 1, 1>>
Projections(b) ==
    {k \in blockLog[b].first..blockLog[b].last : IsProjection(graph[k])}

CallsMade ==
    [b \in 1..Len(blockLog) |->
        <<blockLog[b].input_filters, blockLog[b].num_filters,
          blockLog[b].down_sampling>>]

ExpectedCalls(n) ==
    Rep(n[1], <<64, 64, FALSE>>)
    \o <<<<64, 128, TRUE>>>> \o Rep(n[2] - 1, <<128, 128, FALSE>>)
    \o <<<<128, 256, TRUE>>>> \o Rep(n[3] - 1, <<256, 256, FALSE>>)
    \o <<<<256, 512, TRUE>>>> \o Rep(n[4] - 1, <<512, 512, FALSE>>)

\* C1: for every depth of the table create_r3d does not fail, never stops
\* before it is done, and the add_r3d_block calls it has made are at every
\* moment a prefix of, and when it is done exactly, n1 times (64,64,false),
\* (64,128,true), n2-1 times (128,128,false), (128,256,true), n3-1 times
\* (256,256,false), (256,512,true), n4-1 times (512,512,false): n1+n2+n3+n4
\* calls, 8 for depth 18.
C1_BlockSchedule ==
    (InCreate /\ Supported) =>
        LET n == BLOCK_CONFIG[args.model_depth] IN
        /\ pc # "failed"
        /\ pc # "done" => ENABLED (BeginLayers \/ Lookup \/ LoopCall
                \/ NextStage \/ Final \/ BlockEnter \/ BlockConv1 \/ BlockBn1
                \/ BlockConv2 \/ BlockBn2 \/ BlockShortcut \/ BlockAdd)
        /\ IsPrefix(CallsMade, ExpectedCalls(n))
        /\ pc = "done" =>
              /\ CallsMade = ExpectedCalls(n)
              /\ Len(blockLog) = n[1] + n[2] + n[3] + n[4]
              /\ Completed = 1..Len(blockLog)
              /\ args.model_depth = 18 => Len(blockLog) = 8

C1_Witness ==
    /\ pc = "done"
    /\ args.model_depth = 34
    /\ Len(blockLog) = 16
    /\ CallsMade[4] = <<64, 128, TRUE>>

\* C2 as stated: when create_r3d fails on a depth that is no key of the
\* table, it has created no node.
C2_NoNodeAtFailure == pc = "failed" => Len(graph) = 0

\* C2 as amended: create_r3d fails exactly on a depth that is no key of the
\* table, and at the failure it has created the seven stem nodes
\* (placeholder, two convolutions, two batch-norms, two activations) and
\* nothing else: no builder method was called and no block exists.
C2_FailsAfterStem ==
    /\ pc = "failed" =>
          /\ ~Supported
          /\ [k \in 1..Len(graph) |-> graph[k].op] =
                <<"var", "Convolution", "BatchNorm", "Activation",
                  "Convolution", "BatchNorm", "Activation">>
          /\ blockLog = <<>>
          /\ convLog = <<>>
    /\ (InCreate /\ HasBuilder) => Supported

C2_Witness == pc = "failed" /\ args.model_depth = 20 /\ Len(graph) > 0

\* C3: within one graph assembled by create_r3d no two nodes have the same
\* name, at any moment of the assembly and when it is done.
C3_UniqueNames ==
    InCreate =>
        Cardinality({graph[k].name : k \in 1..Len(graph)}) = Len(graph)

C3_Witness ==
    /\ pc = "done"
    /\ args.model_depth = 34
    /\ \E k \in 1..Len(graph) : graph[k].name = "comp_15_conv_2_middle"
    /\ \E k \in 1..Len(graph) : graph[k].name = "shortcut_projection_13_spatbn"

\* C4: a completed block has a shortcut projection (a 1x1x1 convolution of
\* the block's input followed by a batch-norm, which is then the first
\* operand of the residual add) if and only if its channel counts differ or
\* it downsamples; otherwise the first operand of the add is the block's
\* input.  In a graph create_r3d has finished, the blocks with a projection
\* are those of index n1, n1+n2 and n1+n2+n3.
C4_ProjectionIff ==
    /\ \A b \in Completed :
          LET e == blockLog[b]
              add == graph[e.last - 1]
          IN  /\ (Projections(b) # {}) <=>
                    (e.num_filters # e.input_filters \/ e.down_sampling)
              /\ add.op = "_Plus"
              /\ \A k \in Projections(b) :
                    /\ Projections(b) = {k}
                    /\ graph[k].inputs = <<e.data>>
                    /\ graph[k].num_filter = e.num_filters
                    /\ graph[k + 1].op = "BatchNorm"
                    /\ graph[k + 1].inputs = <<k>>
                    /\ add.inputs[1] = k + 1
              /\ Projections(b) = {} => add.inputs[1] = e.data
    /\ (InCreate /\ pc = "done") =>
          LET n == BLOCK_CONFIG[args.model_depth] IN
          {b - 1 : b \in {c \in Completed : Projections(c) # {}}} =
              {n[1], n[1] + n[2], n[1] + n[2] + n[3]}

C4_Witness ==
    /\ pc = "client"
    /\ \E b \in Completed :
          /\ blockLog[b].input_filters = blockLog[b].num_filters
          /\ blockLog[b].down_sampling
          /\ Projections(b) # {}
    /\ \E b \in Completed : Projections(b) = {}

\* C5: the 1x3x3 convolution of every add_spatial_temporal_conv call has
\* m output channels where m is the integer quotient of
\* 3*in*out*9 by in*9 + 3*out (m*den <= num < (m+1)*den); 144 for (64,64).
C5_MiddleFilters ==
    \A c \in 1..Len(convLog) :
        LET e == convLog[c]
            m == graph[e.first].num_filter
            num == 3 * e.in_filters * e.out_filters * 9
            den == e.in_filters * 9 + 3 * e.out_filters
        IN  /\ graph[e.first].kernel = <<1, 3, 3>>
            /\ m * den <= num
            /\ num < (m + 1) * den
            /\ (e.in_filters = 64 /\ e.out_filters = 64) => m = 144

C5_Witness ==
    /\ pc = "client"
    /\ Len(convLog) = 1
    /\ convLog[1].in_filters = 64
    /\ convLog[1].out_filters = 128
    /\ graph[convLog[1].first].num_filter = 230

SameArgsAgain == pc = "done" /\ prev # NoResult /\ prev.args = args
IsAuto(n) == n.op \in {"Activation", "_Plus"}
Unnamed(n) == [n EXCEPT !.name = ""]

\* C6 as stated: a second invocation of create_r3d with the arguments of an
\* earlier one produces the same graph, the names of the activations and
\* of the residual adds included.
C6_IdenticalGraphs == SameArgsAgain => graph = prev.graph

\* C6 as amended: a second invocation with the arguments of an earlier one
\* starts from a fresh builder (blockCount 0, layerIndex 0) and produces a
\* graph with the same nodes in the same order, the same inputs and
\* parameters, and the same name for every node that is given a name; the
\* activations and residual adds, created without a name, are numbered by
\* a counter of the process that is never reset, and their names differ
\* from those of the earlier graph.
C6_SameUpToAutoNames ==
    /\ SameArgsAgain =>
          /\ Len(graph) = Len(prev.graph)
          /\ \A k \in 1..Len(graph) :
                IF IsAuto(graph[k])
                THEN /\ Unnamed(graph[k]) = Unnamed(prev.graph[k])
                     /\ graph[k].name # prev.graph[k].name
                ELSE graph[k] = prev.graph[k]
    /\ (InCreate /\ pc = "loop" /\ blockLog = <<>>) =>
          (builder.comp_count = 0 /\ builder.comp_idx = 0)

C6_Witness ==
    /\ SameArgsAgain
    /\ args.model_depth = 18
    /\ \E k \in 1..Len(graph) : graph[k].name = "comp_7_conv_2"

\* C7 as stated: the convolution of every shortcut projection has no bias,
\* whatever the builder's bias flag.
C7_ProjectionNeverBiased ==
    \A k \in 1..Len(graph) : IsProjection(graph[k]) => graph[k].no_bias = 1

\* C7 as amended: the convolution of a shortcut projection has no bias if
\* and only if the builder was made with the no-bias flag set; with
\* create_r3d's default no_bias=0 it has a bias.
C7_ProjectionBiasFollowsFlag ==
    \A k \in 1..Len(graph) :
        IsProjection(graph[k]) =>
            /\ graph[k].no_bias \in {0, 1}
            /\ graph[k].no_bias = 1 <=> args.no_bias # 0

C7_Witness ==
    /\ args.no_bias = 0
    /\ \E k \in 1..Len(graph) :
          IsProjection(graph[k]) /\ graph[k].no_bias = 0

BlockNames(c) ==
    {ConvMiddleName(c, 1), BnMiddleName(c, 1), ConvName(c, 1), BnName(c, 1),
     ConvMiddleName(c, 2), BnMiddleName(c, 2), ConvName(c, 2), BnName(c, 2),
     ShortcutName(c), ShortcutBnName(c)}

\* C8: blockCount is the number of blocks completed; every name given
\* inside the k-th block (0-based) carries k; blockCount is n1+n2+n3+n4
\* when create_r3d is done.  layerIndex is 0 when a block starts its first
\* convolution pair, 1 after it, 2 after the second and when the block
\* ends, and each add_spatial_temporal_conv names its nodes with the index
\* it had on entry plus one.
C8_Counters ==
    HasBuilder =>
        /\ builder.comp_count = Cardinality(Completed)
        /\ \A b \in 1..Len(blockLog) :
              \A k \in blockLog[b].first..Len(graph) :
                 (blockLog[b].last = 0 \/ k <= blockLog[b].last) =>
                     (IsAuto(graph[k]) \/ graph[k].name \in BlockNames(b - 1))
        /\ (InCreate /\ pc = "done") =>
              LET n == BLOCK_CONFIG[args.model_depth] IN
              builder.comp_count = n[1] + n[2] + n[3] + n[4]
        /\ pc = "r3d_conv1" => builder.comp_idx = 0
        /\ pc \in {"r3d_bn1", "r3d_conv2"} => builder.comp_idx = 1
        /\ pc \in {"r3d_bn2", "r3d_shortcut", "r3d_add"} => builder.comp_idx = 2
        /\ (pc \in {"loop", "done", "client"} /\ Completed # {}) =>
              builder.comp_idx = 2
        /\ \A c \in 1..Len(convLog) :
              LET e == convLog[c] IN
              /\ graph[e.first].name =
                    ConvMiddleName(e.comp_count, e.comp_idx + 1)
              /\ graph[e.first + 1].name =
                    BnMiddleName(e.comp_count, e.comp_idx + 1)
              /\ graph[e.first + 3].name =
                    ConvName(e.comp_count, e.comp_idx + 1)

C8_Witness ==
    /\ pc = "client"
    /\ Len(blockLog) = 2
    /\ builder.comp_count = 2
    /\ builder.comp_idx = 2
    /\ \E k \in 1..Len(graph) : graph[k].name = "comp_1_spatbn_2"

ExpectedStride(e) ==
    IF ~e.down_sampling THEN <<1, 1, 1>>
    ELSE IF e.only_spatial_downsampling THEN <<1, 2, 2>> ELSE <<2, 2, 2>>

\* C9: the stride of a block is (1,1,1) without downsampling, (1,2,2) with
\* spatial-only downsampling and (2,2,2) otherwise; the first 1x3x3
\* convolution takes its height and width strides, the first 3x1x1 its
\* temporal stride, the second pair has stride 1, so that on each axis the
\* product of the four strides is the block's stride, which is also the
\* stride of the shortcut projection when there is one.
C9_Strides ==
    /\ pc \in {"r3d_conv1", "r3d_bn1", "r3d_conv2", "r3d_bn2", "r3d_shortcut",
               "r3d_add"} =>
          frame.use_striding = ExpectedStride(blockLog[Len(blockLog)])
    /\ \A b \in Completed :
          LET e == blockLog[b]
              st == ExpectedStride(e)
              c1 == graph[e.first]
              c2 == graph[e.first + 3]
              c3 == graph[e.first + 6]
              c4 == graph[e.first + 9]
          IN  /\ c1.kernel = <<1, 3, 3>> /\ c1.stride = <<1, st[2], st[3]>>
              /\ c2.kernel = <<3, 1, 1>> /\ c2.stride = <<st[1], 1, 1>>
              /\ c3.kernel = <<1, 3, 3>> /\ c3.stride = <<1, 1, 1>>
              /\ c4.kernel = <<3, 1, 1>> /\ c4.stride = <<1, 1, 1>>
              /\ \A a \in 1..3 :
                    c1.stride[a] * c2.stride[a] * c3.stride[a] * c4.stride[a]
                       = st[a]
              /\ \A k \in Projections(b) :
                    \A a \in 1..3 :
                       graph[k].stride[a] =
                          c1.stride[a] * c2.stride[a] * c3.stride[a]
                             * c4.stride[a]
              /\ Cardinality({k \in e.first..e.last :
                     graph[k].op = "Convolution" /\ ~IsProjection(graph[k])}) = 4

C9_Witness ==
    /\ pc = "client"
    /\ \E b \in Completed :
          /\ blockLog[b].down_sampling
          /\ blockLog[b].only_spatial_downsampling
          /\ \E k \in Projections(b) : graph[k].stride = <<1, 2, 2>>
    /\ \E b \in Completed :
          /\ blockLog[b].down_sampling
          /\ ~blockLog[b].only_spatial_downsampling

\* C10: every batch-norm node of a create_r3d call is created with
\* momentum set to the bn_mom given to create_r3d.
C10_AllBnMomentum ==
    InCreate =>
        \A k \in 1..Len(graph) :
            graph[k].op = "BatchNorm" => graph[k].momentum = {args.bn_mom}

====
